---- MODULE Spec2Model ----
(***************************************************************************)
(* Ebook-Reader: the page-based reader panel and the text-to-speech        *)
(* service, in the two page-based revisions of the program:                *)
(*   variant 2  =  src/EbookReader/ebook_reader (2).py  (Prev/Next buttons)*)
(*   variant 3  =  src/EbookReader/ebook_reader (3).py  (buttons + slider) *)
(* A page is a sequence of characters; characters are natural numbers.     *)
(***************************************************************************)
EXTENDS Integers, Sequences, FiniteSets, TLC

\* ---------------------------------------------------------------- bounds
MaxPages == 3      \* longest page list an extraction returns
NumDocs == 2       \* distinct documents that can be opened
MaxSpeak == 2      \* speak requests that start a worker thread
MaxTextLen == 9    \* longest of the short texts given to _chunk_text
MaxSize == 5       \* largest of the small chunk sizes given to _chunk_text
MaxWindows == 2    \* long texts reach MaxWindows * ChunkSize + 1 characters
MaxSecs == 2       \* physical pages of a PDF, documents of an EPUB
MaxHay == 2        \* characters of a text that is searched
MaxTerm == 2       \* characters of a search term

\* ------------------------------------------------------ program constants
SliderInitMax == 100   \* wx.Slider(..., maxValue=100) of revision 3
ChunkSize == 3000      \* chunk_size of revision 2, size=3000 of revision 3
EpubMin2 == 100        \* len(text.strip()) > 100 of revision 2
EpubMin3 == 200        \* len(text) > 200 of revision 3

VARIABLES
  variant,           \* which revision of the program runs (2 or 3)
  pages,             \* ReaderPanel.pages
  current_page_idx,  \* ReaderPanel.current_page_idx
  text_ctrl,         \* text shown by ReaderPanel.text_ctrl
  page_lbl,          \* <<shown page number, shown total>> of page_lbl
  prev_btn,          \* TRUE iff prev_btn is enabled
  next_btn,          \* TRUE iff next_btn is enabled
  slider_max,        \* slider.GetMax()   (variant 3)
  slider_value,      \* slider.GetValue() (variant 3)
  engine,            \* TRUE iff TTSService.engine is not None
  is_speaking,       \* TTSService.is_speaking
  nthreads,          \* number of _speak_thread workers started so far
  wpc,               \* worker -> position inside _speak_thread
  sounding,          \* worker heard last since the latest speak() or
                     \* stop() call (0: none heard since)
  stopped,           \* workers still in flight that a stop() call has met
  phase,             \* position of the page-walk scenario
  trace,             \* indices the page-walk scenario has shown
  pdf_lib,           \* TRUE iff "from pypdf import PdfReader" succeeded
  epub_lib,          \* TRUE iff ebooklib and bs4 were imported
  insertion_point,   \* text_ctrl.GetInsertionPoint()
  selection,         \* <<from, to>> of the selection in text_ctrl
  search_msg,
  last_search,       \* history: the latest call of on_search, if no other
                     \* handler ran since        \* TRUE iff the "Text not found." box was shown
  c_text,            \* argument text of _chunk_text
  c_size,            \* argument size of _chunk_text
  c_pages,           \* what _chunk_text returned (<<>> before the call)
  c_called,          \* TRUE iff _chunk_text has returned
  last_file          \* history: the file the latest load was given

readerVars == <<pages, current_page_idx, text_ctrl, page_lbl, prev_btn,
                next_btn, slider_max, slider_value>>
ttsVars == <<is_speaking, nthreads, wpc, stopped>>
soundVars == <<sounding>>
walkVars == <<phase, trace>>
libVars == <<pdf_lib, epub_lib>>
searchVars == <<insertion_point, selection, search_msg, last_search>>
chunkVars == <<c_text, c_size, c_pages, c_called>>
fileVars == <<last_file>>
auxVars == <<libVars, searchVars, chunkVars, fileVars>>
vars == <<variant, engine, readerVars, ttsVars, soundVars, walkVars, auxVars>>

Max(a, b) == IF a > b THEN a ELSE b
Min(a, b) == IF a < b THEN a ELSE b

Workers == 1..MaxSpeak

\* ------------------------------------------------------------ page texts
\* the k-th page of document d
BookPage(d, k) == <<d, k>>
\* a document of n pages, as an extraction returns it
BookPages(d, n) == [k \in 1..n |-> BookPage(d, k)]
\* "(Empty Book or Extraction Failed)"
EmptyBookPage == <<0>>
\* "Error loading file: ..."
ErrorPage == <<0, 0>>
\* every list of pages an extraction can return: none, or the pages of a book
ReadResults == {BookPages(d, n) : d \in 1..NumDocs, n \in 0..MaxPages}

\* no search made
NoSearch == [text |-> <<>>, term |-> <<>>, start |-> 0, found |-> -3]

\* no file opened yet
NoFile == [ext |-> "none", unreadable |-> FALSE, title |-> FALSE, secs |-> <<>>]

\* ------------------------------------------------------------ TTSService
\* workers whose utterance is in flight: started and synthesis not yet over
InFlight(pcs) == {w \in Workers : pcs[w] \in {"started", "speaking"}}
\* workers inside engine.runAndWait(), the ones that can be heard
Speaking(pcs) == {w \in Workers : pcs[w] = "speaking"}

\* self.engine.stop() of variant 2. Whether the engine object the service
\* holds is the one a worker is synthesising with is decided inside
\* pyttsx3.init(); halt = TRUE is the outcome where it is, and every running
\* runAndWait() returns.
EngineStop(pcs, halt) ==
  [w \in Workers |-> IF halt /\ pcs[w] = "speaking" THEN "finally" ELSE pcs[w]]

\* TTSService.stop on the service state s
stop(s, halt) ==
  LET met == [s EXCEPT !.stopped = @ \cup InFlight(s.wpc), !.called = TRUE]
  IN  IF variant = 2
      THEN IF engine /\ s.is_speaking
           THEN [met EXCEPT !.wpc = EngineStop(@, halt),
                            !.stopped = @ \cap InFlight(EngineStop(s.wpc, halt)),
                            !.is_speaking = FALSE]
           ELSE met
      ELSE IF s.is_speaking
           THEN [met EXCEPT !.is_speaking = FALSE]
           ELSE met

\* mutant of speak: a request made while an utterance is in flight is
\* not served
speakWhenIdle(s, halt) ==
  IF (variant = 2 /\ ~engine) \/ InFlight(s.wpc) # {}
  THEN s
  ELSE LET w == s.nthreads + 1
       IN  [s EXCEPT !.is_speaking = TRUE, !.nthreads = w, !.called = TRUE,
                     !.wpc = [@ EXCEPT ![w] = "started"]]

\* TTSService.speak on the service state s
speak(s, halt) ==
  IF variant = 2 /\ ~engine
  THEN s
  ELSE LET s1 == IF s.is_speaking THEN stop(s, halt) ELSE s
           w  == s.nthreads + 1
       IN  [s1 EXCEPT !.is_speaking = TRUE, !.nthreads = w, !.called = TRUE,
                      !.wpc = [@ EXCEPT ![w] = "started"]]

tts == [is_speaking |-> is_speaking, nthreads |-> nthreads,
        wpc |-> wpc, stopped |-> stopped, called |-> FALSE]

\* the service state s stored back; a speak() or stop() call on the way
\* starts a new stretch of listening
SetTts(s) ==
  /\ is_speaking' = s.is_speaking
  /\ nthreads' = s.nthreads
  /\ wpc' = s.wpc
  /\ stopped' = s.stopped
  /\ sounding' = (IF s.called THEN 0 ELSE sounding)

\* ----------------------------------------------------------- ReaderPanel
\* ReaderPanel._update_display of variant 2, for the index idx just assigned
UpdateDisplay2(idx) ==
  LET total == Len(pages') IN
  IF total = 0
  THEN /\ current_page_idx' = idx
       /\ text_ctrl' = <<>>
       /\ page_lbl' = <<0, 0>>
       /\ prev_btn' = FALSE
       /\ next_btn' = FALSE
  ELSE LET i == Max(0, Min(idx, total - 1)) IN
       /\ current_page_idx' = i
       /\ text_ctrl' = pages'[i + 1]
       /\ page_lbl' = <<i + 1, total>>
       /\ prev_btn' = (i > 0)
       /\ next_btn' = (i < total - 1)

\* ReaderPanel.update_display of variant 3, for the index idx just assigned
\* and the slider value sv the handler leaves behind. It returns at once
\* when there are no pages; an index outside the list raises at the first
\* statement, before any widget is touched.
UpdateDisplay3(idx, sv) ==
  /\ current_page_idx' = idx
  /\ IF pages' = <<>> \/ idx + 1 \notin DOMAIN pages'
     THEN /\ slider_value' = sv
          /\ UNCHANGED <<text_ctrl, page_lbl, prev_btn, next_btn>>
     ELSE /\ text_ctrl' = pages'[idx + 1]
          /\ page_lbl' = <<idx + 1, Len(pages')>>
          /\ slider_value' = idx
          /\ prev_btn' = (idx > 0)
          /\ next_btn' = (idx < Len(pages') - 1)

\* mutants of CanPrev: the first page counted as having a predecessor, and
\* the second page counted as having none
CanPrevAtFirst(idx) == idx >= 0
CanPrevStrict(idx) == idx > 1
\* the test of on_prev_page / on_prev
CanPrev(idx) == idx > 0
\* mutant of CanNext: the last page counted as having a successor
CanNextOffByOne(idx, pgs) == idx < Len(pgs)
\* the test of on_next_page / on_next
CanNext(idx, pgs) == idx < Len(pgs) - 1
\* the test of on_slider_change
SliderInRange(val, pgs) == 0 <= val /\ val < Len(pgs)

\* the page list _load_file stores for the list new_pages an extraction gave
\* mutant of Loaded2: a load that raises leaves the pages it found
Loaded2KeepsOld(new_pages, raises) ==
  IF raises THEN pages
  ELSE IF new_pages = <<>> THEN <<EmptyBookPage>> ELSE new_pages

Loaded2(new_pages, raises) ==
  IF raises THEN <<ErrorPage>>
  ELSE IF new_pages = <<>> THEN <<EmptyBookPage>> ELSE new_pages

\* the page list load_book stores for the list extract_text returned
Loaded3(new_pages) == new_pages

\* ReaderPanel._load_file (2) and MainFrame.open_book + load_book (3)
load(new_pages, raises) ==
  IF variant = 2
  THEN /\ pages' = Loaded2(new_pages, raises)
       /\ UpdateDisplay2(0)
       /\ UNCHANGED <<slider_max, slider_value>>
  ELSE /\ pages' = Loaded3(new_pages)
       /\ slider_max' = (IF Loaded3(new_pages) # <<>>
                         THEN Len(Loaded3(new_pages)) - 1 ELSE 0)
       /\ UpdateDisplay3(0, Min(slider_value, slider_max'))

\* on_prev_page (2) / on_prev (3)
on_prev(halt) ==
  IF CanPrev(current_page_idx)
  THEN /\ pages' = pages
       /\ IF variant = 2
          THEN /\ SetTts(stop(tts, halt))
               /\ UpdateDisplay2(current_page_idx - 1)
               /\ UNCHANGED <<slider_max, slider_value>>
          ELSE /\ UNCHANGED <<ttsVars, soundVars>>
               /\ UpdateDisplay3(current_page_idx - 1, slider_value)
               /\ UNCHANGED slider_max
  ELSE UNCHANGED <<readerVars, ttsVars, soundVars>>

\* on_next_page (2) / on_next (3)
on_next(halt) ==
  IF CanNext(current_page_idx, pages)
  THEN /\ pages' = pages
       /\ IF variant = 2
          THEN /\ SetTts(stop(tts, halt))
               /\ UpdateDisplay2(current_page_idx + 1)
               /\ UNCHANGED <<slider_max, slider_value>>
          ELSE /\ UNCHANGED <<ttsVars, soundVars>>
               /\ UpdateDisplay3(current_page_idx + 1, slider_value)
               /\ UNCHANGED slider_max
  ELSE UNCHANGED <<readerVars, ttsVars, soundVars>>

\* on_slider_change (3), val being what slider.GetValue() returns
on_slider_change(val) ==
  /\ variant = 3
  /\ pages' = pages
  /\ slider_max' = slider_max
  /\ IF SliderInRange(val, pages)
     THEN UpdateDisplay3(val, val)
     ELSE /\ slider_value' = val
          /\ UNCHANGED <<current_page_idx, text_ctrl, page_lbl, prev_btn, next_btn>>

\* ------------------------------------------------------------------ Init
\* outcomes of pyttsx3.init() in TTSService.__init__: revision 2 tests
\* self.engine in speak and stop; revision 3 never reads it again, so one
\* outcome stands for both there
EngineOutcomes == IF variant = 2 THEN BOOLEAN ELSE {TRUE}

\* the reader panel and the speech service after construction, in the
\* revision v
InitPanel(v) ==
  /\ variant = v
  /\ engine \in EngineOutcomes
  /\ pages = <<>>
  /\ current_page_idx = 0
  /\ text_ctrl = <<>>
  /\ page_lbl = <<0, 0>>
  /\ prev_btn = (variant = 3)
  /\ next_btn = (variant = 3)
  /\ slider_max = (IF variant = 3 THEN SliderInitMax ELSE 0)
  /\ slider_value = 0
  /\ is_speaking = FALSE
  /\ nthreads = 0
  /\ wpc = [w \in Workers |-> "idle"]
  /\ sounding = 0
  /\ stopped = {}
  /\ phase = "idle"
  /\ trace = <<>>
  /\ insertion_point = 0
  /\ selection = <<0, 0>>
  /\ search_msg = FALSE
  /\ c_text = <<>>
  /\ c_size = 1
  /\ c_pages = <<>>
  /\ c_called = FALSE
  /\ last_file = NoFile
  /\ last_search = NoSearch

\* a page-based revision started with both format libraries installed
Init ==
  /\ \E v \in {2, 3} : InitPanel(v)
  /\ pdf_lib = TRUE
  /\ epub_lib = TRUE

\* --------------------------------------------------------------- actions
\* outcomes of self.engine.stop(), which only revision 2 calls
HaltOutcomes == IF variant = 2 THEN BOOLEAN ELSE {FALSE}
\* whether reading the file raises inside _load_file; extract_text of
\* revision 3 catches it and returns a one-page list, one of ReadResults
RaiseOutcomes == IF variant = 2 THEN BOOLEAN ELSE {FALSE}

Load ==
  /\ \E new_pages \in ReadResults, raises \in RaiseOutcomes :
       /\ raises => new_pages = <<>>     \* a read that raises returns no list
       /\ load(new_pages, raises)
  /\ UNCHANGED <<variant, engine, auxVars, ttsVars, soundVars, walkVars>>

OnPrev ==
  /\ \E halt \in HaltOutcomes : on_prev(halt)
  /\ UNCHANGED <<variant, engine, auxVars, walkVars>>

OnNext ==
  /\ \E halt \in HaltOutcomes : on_next(halt)
  /\ UNCHANGED <<variant, engine, auxVars, walkVars>>

\* values the handler reads from the slider, whose minimum is 0: the page
\* numbers and the first value past them
SliderVals == 0 .. Min(MaxPages, Len(pages))

\* the slider handler run for the slider value val
JumpTo(val) ==
  /\ on_slider_change(val)
  /\ UNCHANGED <<variant, engine, auxVars, ttsVars, soundVars, walkVars>>

OnSliderChange == \E val \in SliderVals : JumpTo(val)

\* on_read_aloud (2) / on_read_click (3)
OnReadAloud ==
  /\ pages # <<>>
  /\ nthreads < MaxSpeak
  /\ \E halt \in HaltOutcomes : SetTts(speak(tts, halt))
  /\ UNCHANGED <<variant, engine, auxVars, readerVars, walkVars>>

\* on_stop_read (2) / on_back_click (3)
OnStopRead ==
  /\ \E halt \in HaltOutcomes : SetTts(stop(tts, halt))
  /\ UNCHANGED <<variant, engine, auxVars, readerVars, walkVars>>

\* _speak_thread: pyttsx3.init() and engine.say(text); ok = FALSE when one
\* of them raises, which takes the worker to its except clause
WorkerBegin(w) ==
  /\ wpc[w] = "started"
  /\ \E ok \in BOOLEAN :
       wpc' = [wpc EXCEPT ![w] = IF ok THEN "speaking" ELSE "except"]
  /\ stopped' = stopped \cap InFlight(wpc')
  /\ UNCHANGED <<variant, engine, auxVars, readerVars, is_speaking, nthreads,
                 soundVars, walkVars>>

\* _speak_thread inside engine.runAndWait(): audio of worker w is heard
WorkerAudio(w) ==
  /\ wpc[w] = "speaking"
  /\ sounding' = w
  /\ UNCHANGED <<variant, engine, auxVars, readerVars, ttsVars, walkVars>>

\* _speak_thread: engine.runAndWait() returns (ok) or raises
WorkerEnd(w) ==
  /\ wpc[w] = "speaking"
  /\ \E ok \in BOOLEAN :
       wpc' = [wpc EXCEPT ![w] = IF ok THEN "finally" ELSE "except"]
  /\ stopped' = stopped \ {w}
  /\ UNCHANGED <<variant, engine, auxVars, readerVars, is_speaking, nthreads,
                 soundVars, walkVars>>

\* mutant of WorkerExcept: the error leaves the thread, finally is skipped
WorkerExceptRaises(w) ==
  /\ wpc[w] = "except"
  /\ wpc' = [wpc EXCEPT ![w] = "done"]
  /\ UNCHANGED <<variant, engine, auxVars, readerVars, is_speaking, nthreads,
                 stopped, soundVars, walkVars>>

\* _speak_thread: except: the error is printed, nothing is raised again
WorkerExcept(w) ==
  /\ wpc[w] = "except"
  /\ wpc' = [wpc EXCEPT ![w] = "finally"]
  /\ UNCHANGED <<variant, engine, auxVars, readerVars, is_speaking, nthreads,
                 stopped, soundVars, walkVars>>

\* mutant of WorkerFinally: the worker ends without resetting the flag
WorkerFinallyKeepsFlag(w) ==
  /\ wpc[w] = "finally"
  /\ wpc' = [wpc EXCEPT ![w] = "done"]
  /\ UNCHANGED <<variant, engine, auxVars, readerVars, is_speaking, nthreads,
                 stopped, soundVars, walkVars>>

\* mutant of WorkerFinally: the worker turns the page when it is done
WorkerFinallyTurnsPage(w) ==
  /\ wpc[w] = "finally"
  /\ is_speaking' = FALSE
  /\ wpc' = [wpc EXCEPT ![w] = "done"]
  /\ current_page_idx' = current_page_idx + 1
  /\ UNCHANGED <<variant, engine, auxVars, pages, text_ctrl, page_lbl,
                 prev_btn, next_btn, slider_max, slider_value, nthreads,
                 stopped, soundVars, walkVars>>

\* _speak_thread: finally: self.is_speaking = False
WorkerFinally(w) ==
  /\ wpc[w] = "finally"
  /\ is_speaking' = FALSE
  /\ wpc' = [wpc EXCEPT ![w] = "done"]
  /\ UNCHANGED <<variant, engine, auxVars, readerVars, nthreads, stopped,
                 soundVars, walkVars>>

Worker ==
  \E w \in Workers :
    \/ WorkerBegin(w)
    \/ WorkerAudio(w)
    \/ WorkerEnd(w)
    \/ WorkerExcept(w)
    \/ WorkerFinally(w)

Next ==
  \/ Load
  \/ OnPrev
  \/ OnNext
  \/ OnSliderChange
  \/ OnReadAloud
  \/ OnStopRead
  \/ Worker

Spec == Init /\ [][Next]_vars

\* every thread started runs on: pyttsx3.init() and say() return or raise,
\* runAndWait() returns or raises, and the except and finally clauses run
WorkerRuns(w) ==
  /\ WF_vars(WorkerBegin(w))
  /\ WF_vars(WorkerEnd(w))
  /\ WF_vars(WorkerExcept(w))
  /\ WF_vars(WorkerFinally(w))

SpecLive == Spec /\ \A w \in Workers : WorkerRuns(w)

\* ------------------------------------------------- the page-walk scenario
\* A user opens a book with at least one page, presses Next for as long as
\* the Next button is enabled, then Prev for as long as the Prev button is
\* enabled; trace records the index shown after every step. Speech requests
\* and the speech workers run in between.
WalkLoad ==
  /\ phase = "idle"
  /\ \E new_pages \in ReadResults, raises \in RaiseOutcomes : load(new_pages, raises)
  /\ pages' # <<>>
  /\ phase' = "fwd"
  /\ trace' = <<current_page_idx'>>
  /\ UNCHANGED <<variant, engine, auxVars, ttsVars, soundVars>>

WalkNext ==
  /\ phase = "fwd"
  /\ next_btn
  /\ \E halt \in HaltOutcomes : on_next(halt)
  /\ trace' = Append(trace, current_page_idx')
  /\ UNCHANGED <<variant, engine, auxVars, phase>>

WalkTurn ==
  /\ phase = "fwd"
  /\ ~next_btn
  /\ phase' = "back"
  /\ UNCHANGED <<variant, engine, auxVars, readerVars, ttsVars, soundVars, trace>>

WalkPrev ==
  /\ phase = "back"
  /\ prev_btn
  /\ \E halt \in HaltOutcomes : on_prev(halt)
  /\ trace' = Append(trace, current_page_idx')
  /\ UNCHANGED <<variant, engine, auxVars, phase>>

WalkEnd ==
  /\ phase = "back"
  /\ ~prev_btn
  /\ phase' = "end"
  /\ UNCHANGED <<variant, engine, auxVars, readerVars, ttsVars, soundVars, trace>>

NextWalk ==
  \/ WalkLoad
  \/ WalkNext
  \/ WalkTurn
  \/ WalkPrev
  \/ WalkEnd
  \/ OnReadAloud
  \/ OnStopRead
  \/ Worker

SpecWalk == Init /\ [][NextWalk]_vars

\* the indices lo, lo+1, ..., hi
Up(lo, hi) == [k \in 1..(hi - lo + 1) |-> lo + k - 1]
\* the indices hi, hi-1, ..., lo
Down(hi, lo) == [k \in 1..(hi - lo + 1) |-> hi - k + 1]


\* ----------------------------------------------------------------- texts
\* An extracted text is <<>>, the empty text, or <<id, from, to>> with
\* from < to: the characters from .. to-1 of the document id, every one of
\* them different from the others.
TextLen(t) == IF t = <<>> THEN 0 ELSE t[3] - t[2]

\* the text of n characters read from document id
WholeText(id, n) == IF n = 0 THEN <<>> ELSE <<id, 0, n>>

\* Python's t[a:b] for 0 <= a <= b: both ends are cut at len(t)
Slice(t, a, b) ==
  LET lo == Min(a, TextLen(t))
      hi == Min(b, TextLen(t))
  IN  IF lo >= hi THEN <<>> ELSE <<t[1], t[2] + lo, t[2] + hi>>

\* mutant of ChunkText: the last, shorter window is left out
ChunkTextDropTail(text, size) ==
  [k \in 1 .. (TextLen(text) \div size) |->
     Slice(text, (k - 1) * size, (k - 1) * size + size)]

\* MainFrame._chunk_text, and the list comprehension of _read_txt_pages:
\* [text[i:i+size] for i in range(0, len(text), size)]
ChunkText(text, size) ==
  [k \in 1 .. ((TextLen(text) + size - 1) \div size) |->
     Slice(text, (k - 1) * size, (k - 1) * size + size)]

\* lengths around the multiples of ChunkSize
LongLens == {w * ChunkSize + j : w \in 1..MaxWindows, j \in {-1, 0, 1}}

\* the texts and sizes _chunk_text is called with: short texts with small
\* sizes, and texts of every length with the size the program uses
ShortTexts == {WholeText(1, n) : n \in 0..MaxTextLen}
LongTexts == {WholeText(1, n) : n \in LongLens}
ChunkInputs ==
  (ShortTexts \X (1..MaxSize)) \cup ((ShortTexts \cup LongTexts) \X {ChunkSize})

\* ------------------------------------------------------------ extraction
\* A file is its extension, whether opening or parsing it raises, whether an
\* EPUB carries a title, and its sections: the content of a text file, the
\* physical pages of a PDF, the documents of an EPUB. Section k of a file
\* is len characters of text k, blank of them whitespace at its two ends.
SecKinds == {<<5, 5>>, <<150, 0>>, <<ChunkSize, 0>>, <<ChunkSize + 1, 0>>}

SecLists(n) ==
  UNION {[1..m -> SecKinds] : m \in 0..n}

Secs(kinds) == [k \in 1..Len(kinds) |->
                  [id |-> k, len |-> kinds[k][1], blank |-> kinds[k][2]]]

File(e, u, t, kinds) ==
  [ext |-> e, unreadable |-> u, title |-> t, secs |-> Secs(kinds)]

Files ==
  {File("txt", FALSE, FALSE, ss) : ss \in SecLists(1)}
  \cup {File("pdf", FALSE, FALSE, ss) : ss \in SecLists(MaxSecs)}
  \cup {File("epub", FALSE, t, ss) : t \in BOOLEAN, ss \in SecLists(MaxSecs)}
  \cup {File(e, TRUE, FALSE, <<>>) : e \in {"txt", "pdf", "epub"}}
  \cup {File("mobi", FALSE, FALSE, <<>>)}

\* the text of a section, and the length of its strip()
SecText(sec) == WholeText(sec.id, sec.len)
StripLen(sec) == sec.len - sec.blank

\* the diagnostic pages, and the title page of revision 2
Unsupported == <<0, 1>>      \* "Unsupported file format."
LibMissing == <<0, 2>>       \* "Library missing: ...", "Please install ..."
NoTextFound == <<0, 3>>      \* "No text found in PDF."
ReadError == <<0, 4>>        \* "Error reading PDF: ...", str(e)
CouldNotRead == <<0, 5>>     \* "Could not read file."
TitlePage == <<0, 6>>        \* "Title: ..."
Diagnostics == {ErrorPage, Unsupported, LibMissing, NoTextFound, ReadError,
                CouldNotRead}

\* f.read() of a text file
Content(f) == IF f.secs = <<>> THEN <<>> ELSE SecText(f.secs[1])

\* the texts of the sections kept, in order
KeptTexts(kept) == [k \in 1 .. Len(kept) |-> SecText(kept[k])]

NonBlank(sec) == StripLen(sec) > 0

\* ReaderPanel._read_txt_pages
ReadTxtPages2(f) == ChunkText(Content(f), ChunkSize)

\* ReaderPanel._read_pdf_pages
ReadPdfPages2(f) ==
  IF ~pdf_lib THEN <<LibMissing>>
  ELSE IF f.unreadable THEN <<ReadError>>
  ELSE LET pages_text == KeptTexts(SelectSeq(f.secs, NonBlank))
       IN  IF pages_text # <<>> THEN pages_text ELSE <<NoTextFound>>

\* the loop of ReaderPanel._read_epub_pages over the documents
RECURSIVE EpubSections2(_)
EpubSections2(secs) ==
  IF secs = <<>> THEN <<>>
  ELSE LET text == SecText(Head(secs))
           own == IF StripLen(Head(secs)) > EpubMin2
                  THEN IF TextLen(text) > ChunkSize
                       THEN ChunkText(text, ChunkSize)
                       ELSE <<text>>
                  ELSE <<>>
       IN  own \o EpubSections2(Tail(secs))

\* ReaderPanel._read_epub_pages
ReadEpubPages2(f) ==
  IF ~epub_lib THEN <<LibMissing>>
  ELSE IF f.unreadable THEN <<ReadError>>
  ELSE (IF f.title THEN <<TitlePage>> ELSE <<>>) \o EpubSections2(f.secs)

\* the branch of _load_file on the extension; open() of a text file that
\* cannot be read raises into _load_file
NewPages2(f) ==
  IF f.ext = "txt" THEN (IF f.unreadable THEN <<>> ELSE ReadTxtPages2(f))
  ELSE IF f.ext = "pdf" THEN ReadPdfPages2(f)
  ELSE IF f.ext = "epub" THEN ReadEpubPages2(f)
  ELSE <<Unsupported>>

Raises2(f) == f.ext = "txt" /\ f.unreadable

\* MainFrame._read_pdf
ReadPdf3(f) ==
  IF ~pdf_lib THEN <<LibMissing>>
  ELSE IF f.unreadable THEN <<ReadError>>
  ELSE KeptTexts(SelectSeq(f.secs, NonBlank))

LongEnough3(sec) == sec.len > EpubMin3

\* MainFrame._read_epub
ReadEpub3(f) ==
  IF ~epub_lib THEN <<LibMissing>>
  ELSE IF f.unreadable THEN <<ReadError>>
  ELSE KeptTexts(SelectSeq(f.secs, LongEnough3))

\* MainFrame.extract_text
ExtractText3(f) ==
  IF f.ext = "txt"
  THEN (IF f.unreadable THEN <<ErrorPage>>
        ELSE ChunkText(Content(f), ChunkSize))
  ELSE IF f.ext = "pdf" THEN ReadPdf3(f)
  ELSE IF f.ext = "epub" THEN ReadEpub3(f)
  ELSE <<CouldNotRead>>

\* ReaderPanel._load_file(f) (2), MainFrame.open_book(f) (3)
LoadFile ==
  /\ \E f \in Files :
       /\ IF variant = 2
          THEN load(NewPages2(f), Raises2(f))
          ELSE load(ExtractText3(f), FALSE)
       /\ last_file' = f
  /\ UNCHANGED <<variant, engine, libVars, searchVars, chunkVars, ttsVars,
                 soundVars, walkVars>>

\* a page-based revision started with any of the format libraries missing
InitLoad ==
  /\ \E v \in {2, 3} : InitPanel(v)
  /\ engine
  /\ pdf_lib \in BOOLEAN
  /\ epub_lib \in BOOLEAN

NextLoad ==
  \/ LoadFile
  \/ OnNext
  \/ OnPrev
  \/ OnSliderChange

SpecLoad == InitLoad /\ [][NextLoad]_vars

\* pages that are document text, not a diagnostic or a title page
IsText(p) == Len(p) = 3

\* ---------------------------------------------------------------- search
\* Characters are numbers: 1 'a', 2 'b', 8 'c', 3 'A', 4 'B', 5 the capital
\* I with dot above (U+0130), 6 'i', 7 the combining dot above (U+0307).
\* str.lower() of one character: U+0130 is the one character whose lower
\* case has two code points.
LowerChar(c) ==
  IF c = 3 THEN <<1>>
  ELSE IF c = 4 THEN <<2>>
  ELSE IF c = 5 THEN <<6, 7>>
  ELSE <<c>>

\* str.lower()
RECURSIVE Lower(_)
Lower(str) ==
  IF str = <<>> THEN <<>> ELSE LowerChar(Head(str)) \o Lower(Tail(str))

\* Python's str[a:b] for 0 <= a
Sub(str, a, b) == SubSeq(str, a + 1, Min(b, Len(str)))

\* find(hay, sub, from) gave no offset
NotFound == -1

\* str.find(sub, from) for from >= 0
PyFind(str, sub, from) ==
  LET hits == {i \in from .. (Len(str) - Len(sub)) :
                 Sub(str, i, i + Len(sub)) = sub}
  IN  IF hits = {} THEN NotFound
      ELSE CHOOSE i \in hits : \A j \in hits : i <= j

\* found_pos of on_search for the text, the query and the cursor position
Find(text, query, start_pos) ==
  LET full_text == Lower(text)
      q == Lower(query)
      found_pos == PyFind(full_text, q, start_pos + 1)
  IN  IF found_pos = NotFound THEN PyFind(full_text, q, 0) ELSE found_pos

\* mutant of EmptyQuery: no query counts as empty
EmptyQueryNever(query) == FALSE

\* "not query"
EmptyQuery(query) == query = <<>>

\* the return of on_search before anything is searched
Returned == -2

Alphabet == {1, 3, 5}
Strings(n) == UNION {[1..m -> Alphabet] : m \in 0..n}
\* the texts a file can hold: every short one and "abcabc"; the terms
\* searched for: every short one, "bc" and "Bc"
Texts == Strings(MaxHay) \cup {<<1, 2, 8, 1, 2, 8>>}
Terms == Strings(MaxTerm) \cup {<<2, 8>>, <<4, 8>>}

\* on_open_file of revisions 0 and 1: SetValue puts the cursor at 0
OpenText ==
  /\ \E content \in Texts : text_ctrl' = content
  /\ insertion_point' = 0
  /\ selection' = <<0, 0>>
  /\ last_search' = NoSearch
  /\ UNCHANGED search_msg
  /\ UNCHANGED <<variant, engine, pages, current_page_idx, page_lbl, prev_btn,
                 next_btn, slider_max, slider_value, ttsVars, soundVars,
                 walkVars, libVars, chunkVars, fileVars>>

\* the reader clicks into the text
SetCursor ==
  /\ \E pos \in 0 .. Len(text_ctrl) :
       /\ pos # insertion_point
       /\ insertion_point' = pos
       /\ selection' = <<pos, pos>>
  /\ last_search' = NoSearch
  /\ UNCHANGED search_msg
  /\ UNCHANGED <<variant, engine, readerVars, ttsVars, soundVars, walkVars,
                 libVars, chunkVars, fileVars>>

\* ReaderPanel.on_search with query in the search box
Search(query) ==
  /\ IF EmptyQuery(query)
     THEN /\ last_search' = [text |-> text_ctrl, term |-> query,
                             start |-> insertion_point, found |-> Returned]
          /\ UNCHANGED <<insertion_point, selection, search_msg>>
     ELSE LET found_pos == Find(text_ctrl, query, insertion_point) IN
          /\ last_search' = [text |-> text_ctrl, term |-> query,
                             start |-> insertion_point, found |-> found_pos]
          /\ IF found_pos # NotFound
             THEN /\ insertion_point' = found_pos
                  /\ selection' = <<found_pos, found_pos + Len(Lower(query))>>
                  /\ search_msg' = FALSE
             ELSE /\ search_msg' = TRUE
                  /\ UNCHANGED <<insertion_point, selection>>
  /\ UNCHANGED <<variant, engine, readerVars, ttsVars, soundVars, walkVars,
                 libVars, chunkVars, fileVars>>

OnSearch == \E query \in Terms : Search(query)

\* a revision with a search box, started
InitSearch ==
  /\ \E v \in {0, 1} : InitPanel(v)
  /\ engine
  /\ pdf_lib = TRUE
  /\ epub_lib = TRUE

NextSearch ==
  \/ OpenText
  \/ SetCursor
  \/ OnSearch

SpecSearch == InitSearch /\ [][NextSearch]_vars

\* --------------------------------------------- _chunk_text called alone
InitChunk ==
  /\ InitPanel(3)
  /\ pdf_lib = TRUE
  /\ epub_lib = TRUE

\* the caller picks the arguments
ChunkArgs ==
  /\ ~c_called
  /\ c_text = <<>> /\ c_size = 1
  /\ \E inp \in ChunkInputs \ {<<c_text, c_size>>} :
       /\ c_text' = inp[1]
       /\ c_size' = inp[2]
  /\ UNCHANGED <<c_pages, c_called>>
  /\ UNCHANGED <<variant, engine, readerVars, ttsVars, soundVars, walkVars,
                 libVars, searchVars, fileVars>>

\* _chunk_text(c_text, c_size) returns
ChunkCall ==
  /\ ~c_called
  /\ c_pages' = ChunkText(c_text, c_size)
  /\ c_called' = TRUE
  /\ UNCHANGED <<c_text, c_size>>
  /\ UNCHANGED <<variant, engine, readerVars, ttsVars, soundVars, walkVars,
                 libVars, searchVars, fileVars>>

NextChunk ==
  \/ ChunkArgs
  \/ ChunkCall

SpecChunk == InitChunk /\ [][NextChunk]_vars

\* the text missing from a broken concatenation
NoText == <<0, 0, 0>>

\* s followed by t, when the two are neighbours in one document
Cat(s, t) ==
  IF s = <<>> THEN t
  ELSE IF t = <<>> THEN s
  ELSE IF s # NoText /\ t # NoText /\ s[1] = t[1] /\ s[3] = t[2]
       THEN <<s[1], s[2], t[3]>>
       ELSE NoText

\* the concatenation of the pages pgs
RECURSIVE Glue(_)
Glue(pgs) ==
  IF pgs = <<>> THEN <<>> ELSE Cat(pgs[1], Glue(Tail(pgs)))

\* ================================================================ claims

\* C1: in the page-based reader, in every state reached by load, next,
\* previous and slider jumps, 0 <= current_page_idx < len(pages) when pages
\* is non-empty, and current_page_idx = 0 when pages is empty.
IndexInBounds ==
  IF pages # <<>>
  THEN 0 <= current_page_idx /\ current_page_idx < Len(pages)
  ELSE current_page_idx = 0

\* C1 witness: the last page of a book of several pages is shown
IndexAtLastPage == Len(pages) >= 2 /\ current_page_idx = Len(pages) - 1

\* C2 (the specification's statement, which the code violates): every load ends with a non-empty page list and index 0,
\* an empty extraction being replaced by a placeholder page.
LoadEndsNonEmpty ==
  [][Load => (pages' # <<>> /\ current_page_idx' = 0)]_vars

\* C3 (the specification's statement, which the code violates): at most one utterance is being synthesised at a time,
\* and a piece of audio is only ever emitted by the worker of the most recent
\* speak request.
OnlyLatestAudible ==
  /\ [](Cardinality(Speaking(wpc)) <= 1)
  /\ [][sounding' \notin {0, sounding} => sounding' = nthreads]_vars

\* C4 (the specification's statement, which the code violates): an utterance that was in flight when stop() was called
\* emits no audio after that stop() has returned.
NoAudioAfterStop ==
  [][sounding' \notin {0, sounding} => sounding' \notin stopped]_vars

\* C5 (the specification's statement, which the code violates): while the worker of the most recent speak request is in
\* flight and no stop() has been called since that request, is_speaking is
\* TRUE.
FlagNotLost ==
  (nthreads > 0 /\ nthreads \in InFlight(wpc) /\ nthreads \notin stopped)
    => is_speaking

\* C6 (the specification's statement, which the code violates): right after a next or previous that moved to another
\* page, no utterance started before it is in flight.
NavigationCancelsSpeech ==
  [][((OnNext \/ OnPrev) /\ current_page_idx' # current_page_idx)
       => InFlight(wpc') = {}]_vars

\* C7: next at the last page and previous at the first page change nothing
\* at all; at any other page next adds 1 to and previous subtracts 1 from
\* current_page_idx, and pages stays as it is.
NextPrevStep ==
  [][/\ OnNext =>
          IF current_page_idx >= Len(pages) - 1
          THEN UNCHANGED vars
          ELSE current_page_idx' = current_page_idx + 1 /\ pages' = pages
     /\ OnPrev =>
          IF current_page_idx <= 0
          THEN UNCHANGED vars
          ELSE current_page_idx' = current_page_idx - 1 /\ pages' = pages]_vars

\* C7 witness: the last page of a book is shown while an utterance is in
\* flight, so a next here has a display and a speech state to leave alone
LastPageWhileSpeaking ==
  /\ Len(pages) >= 2
  /\ current_page_idx = Len(pages) - 1
  /\ is_speaking
  /\ InFlight(wpc) # {}

\* C8 (the specification's statement, which the code violates): in every reachable state the Prev button is enabled iff
\* current_page_idx > 0 and the Next button iff current_page_idx <
\* len(pages) - 1, so both are disabled when pages is empty.
ButtonsFollowIndex ==
  /\ prev_btn = (current_page_idx > 0)
  /\ next_btn = (current_page_idx < Len(pages) - 1)

WalkVisitsInOrder ==
  /\ phase = "fwd" => trace = Up(0, current_page_idx)
  /\ phase \in {"back", "end"} =>
       trace = Up(0, Len(pages) - 1) \o Down(Len(pages) - 2, current_page_idx)
  /\ phase = "back" /\ trace = Up(0, Len(pages) - 1) =>
       current_page_idx = Len(pages) - 1
  /\ phase = "end" => current_page_idx = 0

\* C10 witness: the walk over a book of the largest size has ended
WalkDone == phase = "end" /\ Len(pages) = MaxPages /\ Len(trace) = 2 * MaxPages - 1

\* C11: for every size c > 0 and text t, the pages of _chunk_text(t, c)
\* concatenated give t again, every page but the last has exactly c
\* characters, no page is empty, and the empty text gives no page.
ChunkingLossless ==
  c_called =>
    /\ Glue(c_pages) = c_text
    /\ \A k \in 1 .. Len(c_pages) - 1 : TextLen(c_pages[k]) = c_size
    /\ \A k \in 1 .. Len(c_pages) : c_pages[k] # <<>>
    /\ (c_text = <<>> => c_pages = <<>>)

\* C11 witness: a text was cut into several pages, the last one shorter
ChunkedWithShortTail ==
  /\ c_called
  /\ Len(c_pages) >= 2
  /\ TextLen(c_pages[Len(c_pages)]) < c_size

\* C12 (the specification's statement, which the code violates): every page
\* of extracted document text has at most ChunkSize characters, whatever the
\* format of the file.
PagesWithinChunkSize ==
  \A k \in 1 .. Len(pages) : IsText(pages[k]) => TextLen(pages[k]) <= ChunkSize

\* the pages the sections of secs whose number is in ids are cut into
RECURSIVE SectionWindows(_, _)
SectionWindows(secs, ids) ==
  IF secs = <<>> THEN <<>>
  ELSE (IF Head(secs).id \in ids
        THEN ChunkText(SecText(Head(secs)), ChunkSize)
        ELSE <<>>)
       \o SectionWindows(Tail(secs), ids)

\* C13 (the specification's statement, which the code violates): the text
\* pages of an EPUB are, section after section in document order, the
\* ChunkSize windows of each section that was kept: a section of at most
\* ChunkSize characters is one page, a longer one is split, and no page
\* holds text of two sections.
EpubSectionsChunked ==
  (last_file.ext = "epub" /\ ~last_file.unreadable /\ epub_lib) =>
    LET text_pages == SelectSeq(pages, IsText)
        ids == {text_pages[k][1] : k \in 1 .. Len(text_pages)}
    IN  text_pages = SectionWindows(last_file.secs, ids)

\* the texts of pgs with neighbouring pages of one section joined again
RECURSIVE Sections(_)
Sections(pgs) ==
  IF Len(pgs) <= 1 THEN pgs
  ELSE LET rest == Sections(Tail(pgs))
       IN  IF Cat(pgs[1], rest[1]) # NoText
           THEN <<Cat(pgs[1], rest[1])>> \o Tail(rest)
           ELSE <<pgs[1]>> \o rest

\* C16 (the specification's statement, which the code violates): the
\* sections of a PDF are the texts of its physical pages that are not blank,
\* in page order, and a PDF without any such page gives exactly one
\* diagnostic page, never an empty session.
PdfSectionsNonBlank ==
  (last_file.ext = "pdf" /\ ~last_file.unreadable /\ pdf_lib) =>
    LET with_text == SelectSeq(last_file.secs, NonBlank)
    IN  IF with_text = <<>>
        THEN Len(pages) = 1 /\ pages[1] \in Diagnostics
        ELSE /\ \A k \in 1 .. Len(pages) : IsText(pages[k])
             /\ Sections(pages) =
                  [k \in 1 .. Len(with_text) |-> SecText(with_text[k])]

\* the load paths that fail: an extension the program does not know, a file
\* that cannot be opened or parsed, a format whose library is not installed
Failing(f) ==
  \/ f.ext = "mobi"
  \/ f.unreadable
  \/ f.ext = "pdf" /\ ~pdf_lib
  \/ f.ext = "epub" /\ ~epub_lib

\* C17: a load that fails ends with exactly one page, a diagnostic, shown as
\* page 0; nothing of the document loaded before is left.
FailedLoadOnePage ==
  Failing(last_file) =>
    /\ Len(pages) = 1
    /\ pages[1] \in Diagnostics
    /\ current_page_idx = 0
    /\ text_ctrl = pages[1]

\* C17 witness: a file of unknown extension was opened and its diagnostic
\* is on display
UnknownExtensionShown ==
  /\ last_file.ext = "mobi"
  /\ text_ctrl \in {Unsupported, CouldNotRead}

\* the offsets at which term occurs in hay when case is ignored
Occurrences(hay, term) ==
  {i \in 0 .. (Len(hay) - Len(term)) :
     Lower(Sub(hay, i, i + Len(term))) = Lower(term)}

\* the least element of a non-empty set of offsets
Least(S) == CHOOSE i \in S : \A j \in S : i <= j

\* C14 (the specification's statement, which the code violates): a search
\* for a non-empty term gives the least offset after the start offset at
\* which the term occurs in the text ignoring case, else the least offset at
\* which it occurs at all, and NotFound exactly when it occurs nowhere.
FindNextWraps ==
  (last_search # NoSearch /\ last_search.term # <<>>) =>
    LET occ == Occurrences(last_search.text, last_search.term)
        after == {i \in occ : i > last_search.start}
    IN  last_search.found =
          (IF after # {} THEN Least(after)
           ELSE IF occ # {} THEN Least(occ)
           ELSE NotFound)

\* C15: a search with an empty term changes neither the text, the cursor,
\* the selection nor what was reported, and no match is made.
EmptySearchNoOp ==
  [][Search(<<>>) =>
       /\ UNCHANGED <<text_ctrl, insertion_point, selection, search_msg>>
       /\ last_search'.found = Returned]_vars

\* C15 witness: an empty search was made while a hit was selected, and the
\* selection is still there
EmptySearchKeptSelection ==
  /\ last_search.found = Returned
  /\ selection[2] > selection[1]

\* C18: whatever the speech workers are doing, the handlers of the user
\* interface can run, and a read-aloud request hands its text to a new
\* worker at once, an utterance in flight or not.
SpeakNeverBlocks ==
  /\ ENABLED OnStopRead
  /\ ENABLED OnNext
  /\ ENABLED OnPrev
  /\ ENABLED Load
  /\ (pages # <<>> /\ nthreads < MaxSpeak /\ (variant = 3 \/ engine)) =>
       ENABLED (/\ OnReadAloud
                /\ nthreads' = nthreads + 1
                /\ wpc'[nthreads'] = "started")

\* C18 witness: a second request was served while the first utterance was
\* still being spoken
SecondRequestWhileSpeaking ==
  /\ wpc[1] = "speaking"
  /\ wpc[2] = "started"

\* C19: without an engine, speak starts nothing and returns; a worker whose
\* synthesis raises goes through its except clause to finally and ends; and
\* neither the request nor the failure changes the reader's state.
SpeechFailureAbsorbed ==
  /\ []((variant = 2 /\ ~engine) => (nthreads = 0 /\ ~is_speaking))
  /\ [][(\A w \in Workers :
           /\ (wpc[w] = "except" /\ wpc'[w] # "except") => wpc'[w] = "finally"
           /\ wpc'[w] = "done" => wpc[w] \in {"done", "finally"})
        /\ (readerVars' # readerVars =>
              /\ \A w \in Workers :
                   wpc'[w] # wpc[w] => "except" \notin {wpc[w], wpc'[w]}
              /\ ~OnReadAloud)]_vars

\* C19 witness: the synthesis of a worker has raised while a book is open
WorkerRaised ==
  /\ pages # <<>>
  /\ \E w \in Workers : wpc[w] = "except"

\* C20: a step that changes pages is a load, and a step that changes
\* current_page_idx is a load, a next, a previous or a jump: no speak, stop,
\* read-aloud or worker step changes either.
OnlyReaderStepsMove ==
  [][IF pages' # pages
     THEN Load
     ELSE current_page_idx' # current_page_idx =>
            (OnNext \/ OnPrev \/ OnSliderChange \/ Load)]_vars

\* C20 witness: a worker has run to its end on a page that is not the first
WorkerDoneOnLaterPage ==
  /\ current_page_idx > 0
  /\ \E w \in Workers : wpc[w] = "done"

\* C21 (the specification's statement, which the code violates): the text
\* on display is pages[current_page_idx], the label reads
\* current_page_idx + 1 / len(pages), in the revision with a slider its
\* value is current_page_idx and its maximum len(pages) - 1, and with no
\* pages no text of an earlier document is on display.
DisplayFollowsState ==
  IF pages = <<>>
  THEN text_ctrl = <<>>
  ELSE /\ current_page_idx + 1 \in DOMAIN pages
       /\ text_ctrl = pages[current_page_idx + 1]
       /\ page_lbl = <<current_page_idx + 1, Len(pages)>>
       /\ variant = 3 => (slider_value = current_page_idx
                          /\ slider_max = Len(pages) - 1)

\* no worker is between its start and its end, and the flag is down
Quiet ==
  /\ ~is_speaking
  /\ \A w \in Workers : wpc[w] \in {"idle", "done"}

\* C22: unless read-aloud requests keep coming for ever, every worker
\* started ends and is_speaking becomes FALSE and stays FALSE, whether the
\* synthesis ran to its end, raised or was stopped.
FlagNeverStuck ==
  ([]<><<OnReadAloud>>_vars) \/ <>[]Quiet

\* C22 witness: every request the bound allows was made, and all the
\* workers have ended with the flag down
AllWorkersEnded ==
  /\ nthreads = MaxSpeak
  /\ Quiet

====
